---- MODULE Spec2Model ----
(***************************************************************************)
(* A model of RegionGenerator (src/regiongen.py): the pipeline             *)
(* generate_region runs over one grid of tiles, driven by one seeded       *)
(* random stream.                                                          *)
(*                                                                         *)
(* Numbers: elevation, moisture, sea level and the values of random() are  *)
(* fixed-point, in thousandths (0.35 is 350).  Identifiers "realm_k" and   *)
(* "settlement_k" are the integer k; None is 0.  The random stream is a    *)
(* deterministic function of the seed (random.Random(seed)); the model     *)
(* takes a Lehmer generator for it.                                        *)
(*                                                                         *)
(* NPCGenerator._pick_traits (src/npcgen.py) is modelled beside it, on     *)
(* variables of its own; it draws from the global random module, so each   *)
(* draw is a free choice from the trait pool.                              *)
(***************************************************************************)
EXTENDS Integers, Sequences, FiniteSets, TLC

VARIABLES
    width, height, years, seed, mode, base_sea_level,  \* __init__ arguments
    rng,            \* self.rng: the state of the random stream
    tiles,          \* self.tiles: 0..width*height-1 -> tile record (row-major)
    realms,         \* self.realms: the realm records, in insertion order
    settlements,    \* self.settlements, in insertion order
    events,         \* self.events
    roads,          \* self.roads
    ruins,          \* self.ruins
    color_rows,     \* rows of _build_color_map
    pc,             \* the statement generate_region is at
    error,          \* the exception that ended the run, "none" when none
    current_year,   \* _simulate_history's current_year
    tiles_by_realm, \* _realm_expansion_tick's snapshot: <<[rid, tiles]>>
    realm_pos,      \* index of the realm the expansion tick is at
    river_log,      \* per river source: how its walk ended (observation only)
    spawn_log,      \* positions in tiles of the realm seeds (observation only)
    expansion_log,  \* what the latest expansion pass did (observation only)
    crisis_log,     \* what the latest crisis did (observation only)
    trait_count,    \* _pick_traits's count
    selected,       \* _pick_traits's selected
    attempts,       \* _pick_traits's attempts
    npc_pc,         \* where _pick_traits is: "idle", "picking", "returned"
    line            \* the frame of a call of _line_between on its own

vars == <<width, height, years, seed, mode, base_sea_level, rng, tiles, realms,
          settlements, events, roads, ruins, color_rows, pc, error,
          current_year, tiles_by_realm, realm_pos, river_log, spawn_log,
          expansion_log, crisis_log, trait_count, selected, attempts, npc_pc,
          line>>

region_vars == <<width, height, years, seed, mode, base_sea_level, rng, tiles, realms,
                 settlements, events, roads, ruins, color_rows, pc, error,
                 current_year, tiles_by_realm, realm_pos, river_log, spawn_log,
                 expansion_log, crisis_log>>

npc_vars == <<trait_count, selected, attempts, npc_pc>>

line_vars == <<line>>

(***************************************************************************)
(* Bounds of the model.                                                    *)
(***************************************************************************)
MaxWidth == 9
MaxHeight == 2
MaxSeed == 11
MaxTicks == 4
StripHeight == 17
HighSeaLevel == 900
HistoryTicks == 30
HistoryStrip == 20
HistoryHeight == 14
MaxHistorySeed == 27
MaxRuinSeed == 3
RuinWidth == 10
RuinHeight == 10
MaxLineCoord == 3
MaxLinePoints == 2 * MaxLineCoord + 2

(***************************************************************************)
(* Program constants.                                                      *)
(***************************************************************************)
RiverMaxLength == 80
RiverSourceElevation == 600
MinSeedDistance == 6
AreaPerRealm == 1200
GrowthDivisor == 12
CrisisChance == 350
CivilWarMaxRealms == 8
CivilWarMinTiles == 12
DefaultSeaLevel == 350
LowSeaLevel == 100

Max(a, b) == IF a >= b THEN a ELSE b
Min(a, b) == IF a <= b THEN a ELSE b
Abs(a) == IF a < 0 THEN -a ELSE a
Clamp01(v) == Max(0, Min(1000, v))

(***************************************************************************)
(* The random stream.  Every method of random.Random the program calls     *)
(* advances the stream by one step; a draw returns [v |-> value,           *)
(* s |-> next state].                                                      *)
(***************************************************************************)
LehmerModulus == 65521
LehmerMultiplier == 17364

Advance(s) == (LehmerMultiplier * s) % LehmerModulus

\* random.Random(seed): the state the seed puts the generator in
SeedState(sd) == Advance(Advance(((sd * 47630) % (LehmerModulus - 1)) + 1))

\* rng.random(), in thousandths: 0..999
Random(s) == [v |-> (Advance(s) * 1000) \div LehmerModulus, s |-> Advance(s)]

\* rng._randbelow(n), n > 0: 0..n-1
RandBelow(s, n) == [v |-> (Advance(s) * n) \div LehmerModulus, s |-> Advance(s)]

\* rng.randint(a, b), a <= b
RandInt(s, a, b) == [v |-> a + RandBelow(s, b - a + 1).v, s |-> Advance(s)]

\* rng.uniform(a, b), a and b whole numbers, result in thousandths
Uniform(s, a, b) == [v |-> 1000 * a + (b - a) * Random(s).v, s |-> Advance(s)]

Swap(list, i, j) == [list EXCEPT ![i] = list[j], ![j] = list[i]]

\* rng.shuffle(list): for i in reversed(range(1, n)): j = randbelow(i + 1); swap
\* (Here and in the loops below, the test in front of a recursive call cannot
\* fail: it evaluates the value the loop has built so far before the call, so
\* that the evaluation is never deeper than the loop itself.)
RECURSIVE ShuffleFrom(_, _, _)
ShuffleFrom(list, i, s) ==
    IF i < 2 THEN [v |-> list, s |-> s]
    ELSE LET d == RandBelow(s, i)
             swapped == Swap(list, i, d.v + 1)
         IN IF Len(swapped) = Len(list) THEN ShuffleFrom(swapped, i - 1, d.s)
            ELSE [v |-> list, s |-> s]

Shuffle(list, s) == ShuffleFrom(list, Len(list), s)

(***************************************************************************)
(* Grid helpers.                                                           *)
(***************************************************************************)
Area == width * height

\* _idx
Idx(x, y) == y * width + x

\* _neighbors: the indices of the 4-neighbours inside the grid, in the
\* order (1,0), (-1,0), (0,1), (0,-1)
Neighbors(x, y) ==
    LET cand == << <<x + 1, y>>, <<x - 1, y>>, <<x, y + 1>>, <<x, y - 1>> >>
        ok(p) == 0 <= p[1] /\ p[1] < width /\ 0 <= p[2] /\ p[2] < height
    IN SelectSeq(cand, ok)

NeighborIdx(i) ==
    LET ps == Neighbors(i % width, i \div width)
    IN [k \in 1..Len(ps) |-> Idx(ps[k][1], ps[k][2])]

Range(f) == {f[k] : k \in DOMAIN f}

\* floor of the square root, by bisection
RECURSIVE ISqrtIn(_, _, _)
ISqrtIn(n, lo, hi) ==
    IF lo >= hi THEN lo
    ELSE LET mid == (lo + hi + 1) \div 2
         IN IF mid * mid <= n THEN ISqrtIn(n, mid, hi) ELSE ISqrtIn(n, lo, mid - 1)

ISqrt(n) == ISqrtIn(n, 0, 46340)

(***************************************************************************)
(* Terrain.                                                                *)
(***************************************************************************)
\* _choose_biome
ChooseBiome(e, m, water) ==
    IF water THEN "ocean"
    ELSE IF e > 850 THEN "mountain"
    ELSE IF e > 700 THEN "highland"
    ELSE IF m < 200 THEN "desert"
    ELSE IF m < 450 THEN "grassland"
    ELSE IF m < 750 THEN "temperate_forest"
    ELSE "wetlands"

\* faulty variant: every land tile counts as fertile
FertileAnyLand(t) == ~t.water

\* not t["water"] and t["biome"] in ("grassland", "temperate_forest", "wetlands")
Fertile(t) == ~t.water /\ t.biome \in {"grassland", "temperate_forest", "wetlands"}

NewTile(x, y, e, m) ==
    LET water == e < base_sea_level
    IN [x |-> x, y |-> y, elevation |-> e, moisture |-> m,
        biome |-> ChooseBiome(e, m, water), water |-> water, river |-> FALSE,
        realm_id |-> 0, settlement_id |-> 0]

\* lat_factor + noise, clamped; the caller has checked height > 1
Moisture(y, r) ==
    LET lat_factor == 1000 - (Abs((1000 * y) \div (height - 1) - 500) * 16) \div 10
    IN Clamp01(lat_factor + ((r - 500) * 400) \div 1000)

\* continent mode: elevation of tile (x, y) from its two draws
ContinentElevation(x, y, r1, r2) ==
    LET dx2 == 2 * x - (width - 1)     \* 2 * (x - cx)
        dy2 == 2 * y - (height - 1)    \* 2 * (y - cy)
        \* 1000 * dist / max_r, with max_r = max(width, height) / 2.2
        ratio == ISqrt((dx2 * dx2 + dy2 * dy2) * 1210000) \div Max(width, height)
        base == Clamp01(1000 - ratio)
        bump1 == ((r1 - 500) * 250) \div 1000
        bump2 == ((r2 - 500) * 150 * (base + 300)) \div 1000000
    IN Clamp01(base + bump1 + bump2)

\* archipelago mode: the largest contribution of the blob centers
RECURSIVE BlobElevation(_, _, _, _, _)
BlobElevation(x, y, centers, k, e) ==
    IF k > Len(centers) THEN e
    ELSE LET c == centers[k]
             dx == x - c.cx
             dy == y - c.cy
             d == ISqrt((dx * dx + dy * dy) * 1000000)
             contrib == Max(0, 1000 - (d * 1000) \div c.rad)
         IN BlobElevation(x, y, centers, k + 1, IF contrib > e THEN contrib ELSE e)

ArchipelagoElevation(x, y, centers, r) ==
    Clamp01(BlobElevation(x, y, centers, 1, 0) + ((r - 500) * 150) \div 1000)

NumMasses == Max(2, Area \div 800)

RECURSIVE DrawCenters(_, _, _)
DrawCenters(k, acc, s) ==
    IF k = 0 THEN [v |-> acc, s |-> s]
    ELSE LET a == RandInt(s, 0, width - 1)
             b == RandInt(a.s, 0, height - 1)
             c == Uniform(b.s, 8, 16)
         IN DrawCenters(k - 1, Append(acc, [cx |-> a.v, cy |-> b.v, rad |-> c.v]), c.s)

\* the double loop of _generate_base_tiles: tile i = y * width + x, draws in
\* row-major order
\* for x in range(self.width): the tiles of row y, appended to acc.  Each
\* tile is built before the loop goes on.
RECURSIVE GenRow(_, _, _, _, _)
GenRow(x, y, acc, centers, s) ==
    IF x = width THEN [v |-> acc, s |-> s]
    ELSE IF mode = "continent"
         THEN LET d1 == Random(s)
                  d2 == Random(d1.s)
                  d3 == Random(d2.s)
                  e == ContinentElevation(x, y, d1.v, d2.v)
                  tile == NewTile(x, y, e, Moisture(y, d3.v))
              IN IF tile.x = x THEN GenRow(x + 1, y, Append(acc, tile), centers, d3.s)
                 ELSE [v |-> acc, s |-> s]
         ELSE LET d1 == Random(s)
                  d2 == Random(d1.s)
                  e == ArchipelagoElevation(x, y, centers, d1.v)
                  tile == NewTile(x, y, e, Moisture(y, d2.v))
              IN IF tile.x = x THEN GenRow(x + 1, y, Append(acc, tile), centers, d2.s)
                 ELSE [v |-> acc, s |-> s]

\* for y in range(self.height): the rows from y on, appended to acc
RECURSIVE GenTiles(_, _, _, _)
GenTiles(y, acc, centers, s) ==
    IF y = height THEN [v |-> acc, s |-> s]
    ELSE LET row == GenRow(0, y, <<>>, centers, s)
         IN IF Len(row.v) = width THEN GenTiles(y + 1, acc \o row.v, centers, row.s)
            ELSE [v |-> acc, s |-> s]

(***************************************************************************)
(* _enforce_continent_connectivity.                                        *)
(***************************************************************************)
\* [i for i, t in enumerate(self.tiles) if test(t)], from keep[i + 1] = test(t)
IndicesWhere(keep, i, acc) ==
    LET Kept(j) == keep[j + 1]
    IN acc \o SelectSeq([k \in 1..(Len(keep) - i) |-> i + k - 1], Kept)

IsLand(t) == ~t.water

\* for n in self._neighbors(x, y): push the unvisited land neighbours
RECURSIVE PushNeighbors(_, _, _, _, _)
PushNeighbors(ts, ns, k, stack, visited) ==
    IF k > Len(ns) THEN [stack |-> stack, visited |-> visited]
    ELSE IF ns[k] \notin visited /\ ~ts[ns[k] + 1].water
         THEN PushNeighbors(ts, ns, k + 1, Append(stack, ns[k]), visited \cup {ns[k]})
         ELSE PushNeighbors(ts, ns, k + 1, stack, visited)

\* while stack: idx = stack.pop(); comp.append(idx); ...
RECURSIVE FloodFill(_, _, _, _)
FloodFill(ts, stack, comp, visited) ==
    IF stack = <<>> THEN [comp |-> comp, visited |-> visited]
    ELSE LET idx == stack[Len(stack)]
             p == PushNeighbors(ts, NeighborIdx(idx), 1, SubSeq(stack, 1, Len(stack) - 1),
                                visited)
             grown == Append(comp, idx)
         IN IF grown[Len(grown)] \in p.visited THEN FloodFill(ts, p.stack, grown, p.visited)
            ELSE [comp |-> comp, visited |-> visited]

\* for start in land_indices: the components, in the order they are discovered
RECURSIVE Components(_, _, _, _, _)
Components(ts, land, k, visited, comps) ==
    IF k > Len(land) THEN comps
    ELSE IF land[k] \in visited THEN Components(ts, land, k + 1, visited, comps)
    ELSE LET f == FloodFill(ts, <<land[k]>>, <<>>, visited \cup {land[k]})
             found == Append(comps, f.comp)
         IN IF found[Len(found)] # <<>> THEN Components(ts, land, k + 1, f.visited, found)
            ELSE comps

\* faulty variant: a later component of the same length replaces the best
RECURSIVE LastLongest(_, _, _)
LastLongest(comps, k, best) ==
    IF k > Len(comps) THEN best
    ELSE LastLongest(comps, k + 1,
                     IF Len(comps[k]) >= Len(comps[best]) THEN k ELSE best)

\* components.sort(key=len, reverse=True) leaves at [0] the first of the
\* longest components (the sort is stable, also under reverse=True)
RECURSIVE FirstLongest(_, _, _)
FirstLongest(comps, k, best) ==
    IF k > Len(comps) THEN best
    ELSE FirstLongest(comps, k + 1,
                      IF Len(comps[k]) > Len(comps[best]) THEN k ELSE best)

\* faulty variant: floods the tile and leaves its biome
ToOceanFlagOnly(t) == [t EXCEPT !.water = TRUE, !.river = FALSE, !.realm_id = 0,
                                !.settlement_id = 0]

\* faulty variant: relabels the biome and leaves the tile land
ToOceanBiomeOnly(t) == [t EXCEPT !.biome = "ocean", !.river = FALSE, !.realm_id = 0,
                           !.settlement_id = 0]

\* t["water"] = True; t["biome"] = "ocean"; ... for a tile of a smaller component
ToOcean(t) == [t EXCEPT !.water = TRUE, !.biome = "ocean", !.river = FALSE,
                        !.realm_id = 0, !.settlement_id = 0]

\* ts is a sequence of tiles (tile i at position i + 1)
EnforceContinentConnectivity(ts) ==
    LET land == IndicesWhere([k \in 1..Len(ts) |-> IsLand(ts[k])], 0, <<>>)
    IN IF land = <<>> THEN ts
       ELSE LET comps == Components(ts, land, 1, {}, <<>>)
            IN IF Len(comps) <= 1 THEN ts
               ELSE LET main == Range(comps[FirstLongest(comps, 1, 1)])
                    IN [i \in 1..Len(ts) |->
                          IF ~ts[i].water /\ (i - 1) \notin main
                          THEN ToOcean(ts[i]) ELSE ts[i]]

(***************************************************************************)
(* _carve_rivers.                                                          *)
(***************************************************************************)
IsRiverSource(t) == ~t.water /\ t.elevation > RiverSourceElevation

\* the keys of min(neighbors, key=...): one jitter draw per non-water
\* neighbour, in neighbour order
RECURSIVE RiverKeys(_, _, _, _, _)
RiverKeys(ts, ns, k, keys, s) ==
    IF k > Len(ns) THEN [v |-> keys, s |-> s]
    ELSE LET t == ts[ns[k] + 1]
         IN IF t.water
            THEN RiverKeys(ts, ns, k + 1, Append(keys, t.elevation), s)
            ELSE LET d == Random(s)
                 IN RiverKeys(ts, ns, k + 1,
                              Append(keys, t.elevation + (50 * d.v) \div 1000), d.s)

\* min returns the first element with the least key
ArgMin(keys, k, best) ==
    LET among == {best} \cup k..Len(keys)
    IN CHOOSE m \in among :
           \A j \in among : keys[m] < keys[j] \/ (keys[m] = keys[j] /\ m <= j)

\* what one iteration of the walk saw: the elevation of the tile it marked,
\* and the neighbour it chose
Seen(tile, next_tile) ==
    [cur_elevation |-> tile.elevation, next_elevation |-> next_tile.elevation,
     next_water |-> next_tile.water]

\* faulty variant: stops on a neighbour that is not lower
LocalMinimumOrLevel(tile, next_tile) ==
    next_tile.elevation >= tile.elevation /\ ~tile.water

\* if next_tile["elevation"] > tile["elevation"] and not tile["water"]: break
LocalMinimum(tile, next_tile) ==
    next_tile.elevation > tile.elevation /\ ~tile.water

\* faulty variant: the walk goes on into the water
ReachesWaterIgnored(next_tile) == FALSE

\* if next_tile["water"]: break
ReachesWater(next_tile) == next_tile.water

\* one iteration of `for _ in range(80)` on the walk w =
\* [tiles, s, x, y, steps, end, last]: `steps` iterations are done, `end` is
\* "walking" until a break ends the loop, `last` is what the latest saw
WalkStep(w) ==
    IF w.end # "walking" THEN w
    ELSE LET idx == Idx(w.x, w.y)
             marked == [w.tiles EXCEPT ![idx + 1].river = TRUE]
             tile == marked[idx + 1]
             ns == NeighborIdx(idx)
         IN IF Len(ns) = 0
            THEN [w EXCEPT !.tiles = marked, !.steps = w.steps + 1,
                           !.end = "no_neighbors"]
            ELSE LET ks == RiverKeys(marked, ns, 1, <<>>, w.s)
                     next_tile == marked[ns[ArgMin(ks.v, 1, 1)] + 1]
                     now == Seen(tile, next_tile)
                 IN IF ReachesWater(next_tile)
                    THEN [w EXCEPT !.tiles = marked, !.s = ks.s, !.steps = w.steps + 1,
                                   !.end = "break", !.last = now]
                    ELSE IF LocalMinimum(tile, next_tile)
                    THEN [w EXCEPT !.tiles = marked, !.s = ks.s, !.steps = w.steps + 1,
                                   !.end = "break", !.last = now]
                    ELSE [w EXCEPT !.tiles = marked, !.s = ks.s, !.steps = w.steps + 1,
                                   !.x = next_tile.x, !.y = next_tile.y, !.last = now]

\* n iterations of the loop, one after the other
RECURSIVE WalkSteps(_, _)
WalkSteps(w, n) ==
    IF n = 0 THEN w
    ELSE IF n = 1 THEN WalkStep(w)
    ELSE LET half == WalkSteps(w, n \div 2)
         IN IF half.end # "walking" THEN half ELSE WalkSteps(half, n - n \div 2)

NothingSeen == [cur_elevation |-> 0, next_elevation |-> 0, next_water |-> FALSE]

\* the walk from one source: at most RiverMaxLength iterations
RiverWalk(ts, s, x, y) ==
    LET w == WalkSteps([tiles |-> ts, s |-> s, x |-> x, y |-> y, steps |-> 0,
                        end |-> "walking", last |-> NothingSeen], RiverMaxLength)
    IN [tiles |-> w.tiles, s |-> w.s,
        log |-> [steps |-> w.steps, last |-> w.last,
                 end |-> IF w.end = "walking" THEN "exhausted" ELSE w.end]]

RECURSIVE RiverWalks(_, _, _, _, _)
RiverWalks(ts, s, starts, k, logs) ==
    IF k > Len(starts) THEN [tiles |-> ts, s |-> s, logs |-> logs]
    ELSE LET w == RiverWalk(ts, s, ts[starts[k] + 1].x, ts[starts[k] + 1].y)
         IN RiverWalks(w.tiles, w.s, starts, k + 1, Append(logs, w.log))

CarveRivers(ts, s, count) ==
    LET land_tiles == IndicesWhere([k \in 1..Len(ts) |-> IsRiverSource(ts[k])], 0, <<>>)
    IN IF land_tiles = <<>> THEN [tiles |-> ts, s |-> s, logs |-> <<>>]
       ELSE LET sh == Shuffle(land_tiles, s)
                starts == SubSeq(sh.v, 1, Min(count, Len(sh.v)))
            IN RiverWalks(ts, sh.s, starts, 1, <<>>)

(***************************************************************************)
(* Realms.                                                                 *)
(***************************************************************************)
\* _make_realm_name: the name is the pair of the prefix and suffix drawn
MakeRealmName(s) ==
    LET a == RandBelow(s, 9)
        b == RandBelow(a.s, 7)
    IN [v |-> <<a.v, b.v>>, s |-> b.s]

\* _random_color
RandomColor(s) ==
    LET r == RandInt(s, 80, 220)
        g == RandInt(r.s, 80, 220)
        b == RandInt(g.s, 80, 220)
    IN [v |-> <<r.v, g.v, b.v>>, s |-> b.s]

\* faulty variant: numbers the realm one past the id its tiles are given
NewRealmOffByOne(rid, s, founded, notes) ==
    LET n == MakeRealmName(s)
        c == RandomColor(n.s)
    IN [v |-> [id |-> rid + 1, name |-> n.v, color |-> c.v, capital_settlement_id |-> 0,
               founded_year |-> founded, dissolved_year |-> 0, culture |-> "lowland",
               notes |-> notes, strength |-> FALSE],
        s |-> c.s]

\* the realm dict; the name is drawn before the color
NewRealm(rid, s, founded, notes) ==
    LET n == MakeRealmName(s)
        c == RandomColor(n.s)
    IN [v |-> [id |-> rid, name |-> n.v, color |-> c.v, capital_settlement_id |-> 0,
               founded_year |-> founded, dissolved_year |-> 0, culture |-> "lowland",
               notes |-> notes, strength |-> FALSE],
        s |-> c.s]

TargetRealms == Max(2, Min(6, Area \div AreaPerRealm))

\* fault variant of TooClose: a seed at distance MinSeedDistance - 1 passes
TooCloseOffByOne(x, y, used) ==
    \E k \in 1..Len(used) :
        Abs(x - used[k][1]) + Abs(y - used[k][2]) < MinSeedDistance - 1

TooClose(x, y, used) ==
    \E k \in 1..Len(used) :
        Abs(x - used[k][1]) + Abs(y - used[k][2]) < MinSeedDistance

\* for i in range(target_realms * 2), on st = [tiles, realms, used, s]
RECURSIVE SpawnLoop(_, _, _)
SpawnLoop(st, fertile, i) ==
    IF i >= TargetRealms * 2 THEN st
    ELSE IF Len(st.realms) >= TargetRealms THEN st
    ELSE IF i >= Len(fertile) THEN st
    ELSE LET tile == st.tiles[fertile[i + 1] + 1]
         IN IF TooClose(tile.x, tile.y, st.used)
            THEN SpawnLoop(st, fertile, i + 1)
            ELSE LET rid == Len(st.realms) + 1
                     r == NewRealm(rid, st.s, 0, <<>>)
                 IN SpawnLoop([tiles |-> [st.tiles EXCEPT ![fertile[i + 1] + 1].realm_id = rid],
                               realms |-> Append(st.realms, r.v),
                               used |-> Append(st.used, <<tile.x, tile.y>>),
                               s |-> r.s],
                              fertile, i + 1)

\* _spawn_initial_realms
SpawnInitialRealms(ts, s) ==
    LET sh == Shuffle(IndicesWhere([k \in 1..Len(ts) |-> Fertile(ts[k])], 0, <<>>), s)
        fertile == sh.v
        st == SpawnLoop([tiles |-> ts, realms |-> <<>>, used |-> <<>>, s |-> sh.s],
                        fertile, 0)
    IN IF st.realms = <<>> /\ fertile # <<>>
       THEN LET r == NewRealm(1, st.s, 0, <<>>)
            IN [tiles |-> [st.tiles EXCEPT ![fertile[1] + 1].realm_id = 1],
                realms |-> <<r.v>>, s |-> r.s]
       ELSE [tiles |-> st.tiles, realms |-> st.realms, s |-> st.s]

\* _realm_tile_count
RealmTileCount(ts, rid) == Cardinality({i \in 1..Len(ts) : ts[i].realm_id = rid})

\* the tiles of a realm, in tile order
TilesOf(ts, rid) ==
    LET Owned(t) == t.realm_id = rid
    IN IndicesWhere([k \in 1..Len(ts) |-> Owned(ts[k])], 0, <<>>)

\* tiles_by_realm.setdefault(rid, []).append(t), for t in self.tiles: the
\* realms in the order their first tile comes, each with its tiles in order
RealmOrder(ts, i, acc) ==
    LET First(k) == /\ ts[k].realm_id # 0
                    /\ ts[k].realm_id \notin Range(acc)
                    /\ \A j \in i..(k - 1) : ts[j].realm_id # ts[k].realm_id
        firsts == SelectSeq([k \in 1..(Len(ts) - i + 1) |-> i + k - 1], First)
    IN acc \o [k \in 1..Len(firsts) |-> ts[firsts[k]].realm_id]

GroupByRealm(ts) ==
    LET order == RealmOrder(ts, 1, <<>>)
    IN [k \in 1..Len(order) |-> [rid |-> order[k], tiles |-> TilesOf(ts, order[k])]]

\* len(tiles_by_realm.get(other_id, [])) or 1
SnapshotSize(groups, rid) ==
    LET hit == {k \in 1..Len(groups) : groups[k].rid = rid}
        n == IF hit = {} THEN 0 ELSE Len(groups[CHOOSE k \in hit : TRUE].tiles)
    IN IF n = 0 THEN 1 ELSE n

\* fault variant of IsBorderTile: only a neighbour owned by another realm
\* counts, an unowned neighbour does not
IsBorderTileForeignOnly(ts, i) ==
    LET rid == ts[i + 1].realm_id
        ns == NeighborIdx(i)
    IN rid # 0 /\ \E k \in 1..Len(ns) : ts[ns[k] + 1].realm_id \notin {0, rid}

\* _is_border_tile
IsBorderTile(ts, i) ==
    LET rid == ts[i + 1].realm_id
        ns == NeighborIdx(i)
    IN rid # 0 /\ \E k \in 1..Len(ns) : ts[ns[k] + 1].realm_id # rid

(***************************************************************************)
(* _realm_expansion_tick, one realm of the loop over tiles_by_realm.       *)
(***************************************************************************)
\* n["realm_id"] = rid; grown += 1, on st = [tiles, s, grown, detached];
\* `detached` counts the tiles annexed while no in-grid 4-neighbour of theirs
\* was owned by the realm
Annex(st, i, rid, s) ==
    LET t == st.tiles[i + 1]
        joined == \E j \in 1..Len(st.tiles) :
                      /\ st.tiles[j].realm_id = rid
                      /\ (st.tiles[j].x - t.x) * (st.tiles[j].x - t.x)
                            + (st.tiles[j].y - t.y) * (st.tiles[j].y - t.y) = 1
    IN [tiles |-> [st.tiles EXCEPT ![i + 1].realm_id = rid], s |-> s,
        grown |-> st.grown + 1,
        detached |-> st.detached + (IF joined THEN 0 ELSE 1)]

\* fault variant of Impassable: mountains can be annexed
ImpassableWaterOnly(n) == n.water

\* if n["water"] or n["biome"] == "mountain": continue
Impassable(n) == n.water \/ n.biome = "mountain"

\* for n in self._neighbors(t.x, t.y)
RECURSIVE ExpandNeighbors(_, _, _, _, _, _)
ExpandNeighbors(st, ns, k, rid, size, groups) ==
    IF k > Len(ns) THEN st
    ELSE LET n == st.tiles[ns[k] + 1]
         IN IF Impassable(n)
            THEN ExpandNeighbors(st, ns, k + 1, rid, size, groups)
            ELSE IF n.realm_id = 0
            THEN ExpandNeighbors(Annex(st, ns[k], rid, st.s), ns, k + 1, rid, size, groups)
            ELSE IF n.realm_id # rid
            THEN LET other_size == SnapshotSize(groups, n.realm_id)
                     d == Random(st.s)
                     \* random() < 0.4 * (size / (size + other_size))
                     won == d.v * (size + other_size) < 400 * size
                 IN ExpandNeighbors(
                        IF won THEN Annex(st, ns[k], rid, d.s) ELSE [st EXCEPT !.s = d.s],
                        ns, k + 1, rid, size, groups)
            ELSE ExpandNeighbors(st, ns, k + 1, rid, size, groups)

DesiredGrowth(size) == Max(1, size \div GrowthDivisor)

\* for t in realm_tiles, on st = [tiles, s, grown, attempts, lost]; `lost`
\* counts the tiles visited that the realm no longer owned when visited
RECURSIVE ExpandTiles(_, _, _, _, _, _)
ExpandTiles(st, list, k, rid, size, groups) ==
    IF k > Len(list) THEN st
    ELSE IF st.grown >= DesiredGrowth(size) THEN st
    ELSE LET was_lost == st.tiles[list[k] + 1].realm_id # rid
             before == st.grown
             e == ExpandNeighbors([tiles |-> st.tiles, s |-> st.s, grown |-> st.grown,
                                   detached |-> st.detached],
                                  NeighborIdx(list[k]), 1, rid, size, groups)
             after == [tiles |-> e.tiles, s |-> e.s, grown |-> e.grown,
                       detached |-> e.detached,
                       attempts |-> st.attempts + 1,
                       lost |-> st.lost + (IF was_lost /\ e.grown > before THEN 1 ELSE 0)]
         IN IF after.attempts > DesiredGrowth(size) * 6 THEN after
            ELSE ExpandTiles(after, list, k + 1, rid, size, groups)

\* 100 * size > 18 * area: size > (self.width * self.height) * 0.18
ExceedsPeakShare(size) == 100 * size > 18 * Area

\* faulty variant: looks at the latest event alone
HasPeakEventLatestOnly(evs, rid) ==
    evs # <<>> /\ evs[Len(evs)].type = "EMPIRE_PEAK" /\ rid \in Range(evs[Len(evs)].realm_ids)

\* not all(not (e.type == "EMPIRE_PEAK" and rid in e.realm_ids) for e in events)
HasPeakEvent(evs, rid) ==
    \E k \in 1..Len(evs) : evs[k].type = "EMPIRE_PEAK" /\ rid \in Range(evs[k].realm_ids)

NewEvent(type, rid, year) ==
    [id |-> <<type, rid, year>>, year |-> year, type |-> type, realm_ids |-> <<rid>>,
     settlement_id |-> 0]

\* one pass of the loop body of _realm_expansion_tick for the realm at
\* position `pos` of the snapshot `groups`
ExpandOneRealm(ts, rs, evs, s, groups, pos, year) ==
    LET rid == groups[pos].rid
        size == Len(groups[pos].tiles)
        sh == Shuffle(groups[pos].tiles, s)
        e == ExpandTiles([tiles |-> ts, s |-> sh.s, grown |-> 0, attempts |-> 0,
                          lost |-> 0, detached |-> 0],
                         sh.v, 1, rid, size, groups)
        peak == ExceedsPeakShare(size) /\ ~HasPeakEvent(evs, rid)
    IN [tiles |-> e.tiles, s |-> e.s,
        groups |-> [groups EXCEPT ![pos].tiles = sh.v],
        realms |-> IF peak
                   THEN [rs EXCEPT ![rid].notes = Append(@, <<"dominant", year>>)]
                   ELSE rs,
        events |-> IF peak THEN Append(evs, NewEvent("EMPIRE_PEAK", rid, year)) ELSE evs,
        log |-> [rid |-> rid, size |-> size, desired_growth |-> DesiredGrowth(size),
                 grown |-> e.grown, visited |-> e.attempts, lost |-> e.lost,
                 detached |-> e.detached, year |-> year]]

(***************************************************************************)
(* _random_crisis.                                                         *)
(***************************************************************************)
CrisisTypes == <<"PLAGUE", "CIVIL_WAR", "SUCCESSION">>

NoCrisis == [type |-> "none", rid |-> 0, n |-> 0, k |-> 0, border |-> 0,
             effect |-> "none", year |-> 0]

\* fault variant of CrisisSkipped: the event is appended all the same
CrisisSkippedButRecorded(ts, rs, evs, s, log) ==
    [tiles |-> ts, realms |-> rs,
     events |-> Append(evs, NewEvent(log.type, log.rid, log.year)),
     s |-> s, log |-> log]

\* the `return` of a crisis that cannot take effect: no border tiles, or the
\* civil-war guard
CrisisSkipped(ts, rs, evs, s, log) ==
    [tiles |-> ts, realms |-> rs, events |-> evs, s |-> s, log |-> log]

\* fault variant of CivilWarAllowed: the size of the realm is not tested
CivilWarAllowedAnySize(count, n) == ~(count > CivilWarMaxRealms)

\* the negation of `len(self.realms) > 8 or len(tiles) < 12`
CivilWarAllowed(count, n) == ~(count > CivilWarMaxRealms \/ n < CivilWarMinTiles)

\* t["realm_id"] = value for the tiles of list[1..n]
SetRealm(ts, list, n, value) ==
    LET chosen == {list[k] : k \in 1..Min(n, Len(list))}
    IN [i \in 1..Len(ts) |->
          IF (i - 1) \in chosen THEN [ts[i] EXCEPT !.realm_id = value] ELSE ts[i]]

RandomCrisis(ts, rs, evs, s, year) ==
    LET HasTiles(r) == RealmTileCount(ts, r.id) > 0
        realm_ids == SelectSeq(rs, HasTiles)
        same == [tiles |-> ts, realms |-> rs, events |-> evs, s |-> s, log |-> NoCrisis]
    IN IF realm_ids = <<>> THEN same
       ELSE
       LET c == RandBelow(s, Len(realm_ids))
           rid == realm_ids[c.v + 1].id
           realm == rs[rid]
           owned == TilesOf(ts, rid)
           ct == RandBelow(c.s, 3)
           crisis_type == CrisisTypes[ct.v + 1]
           seen == [type |-> crisis_type, rid |-> rid, n |-> Len(owned), k |-> 0,
                    border |-> 0, effect |-> "none", year |-> year]
       IN IF owned = <<>> THEN [same EXCEPT !.s = c.s]
          ELSE IF crisis_type \in {"PLAGUE", "SUCCESSION"}
          THEN LET IsBorder(i) == IsBorderTile(ts, i)
                   border_tiles == SelectSeq(owned, IsBorder)
               IN IF border_tiles = <<>>
                  THEN CrisisSkipped(ts, rs, evs, ct.s, seen)
                  ELSE LET sh == Shuffle(border_tiles, ct.s)
                           k == RandInt(sh.s, 6, 10)
                           cut == Max(1, Len(owned) \div k.v)
                       IN [tiles |-> SetRealm(ts, sh.v, cut, 0),
                           realms |-> rs,
                           events |-> Append(evs, NewEvent(crisis_type, rid, year)),
                           s |-> k.s,
                           log |-> [seen EXCEPT !.k = k.v, !.border = Len(border_tiles),
                                                !.effect = "strip"]]
          ELSE IF ~CivilWarAllowed(Len(rs), Len(owned))
          THEN CrisisSkipped(ts, rs, evs, ct.s, seen)
          ELSE LET new_id == Len(rs) + 1
                   r == NewRealm(new_id, ct.s, year, << <<"splintered", rid>> >>)
                   sh == Shuffle(owned, r.s)
               IN [tiles |-> SetRealm(ts, sh.v, Len(owned) \div 2, new_id),
                   realms |-> Append(rs, [r.v EXCEPT !.culture = realm.culture]),
                   events |-> Append(evs, NewEvent(crisis_type, rid, year)),
                   s |-> sh.s,
                   log |-> [seen EXCEPT !.effect = "split"]]

(***************************************************************************)
(* Settlements, roads, ruins.                                              *)
(***************************************************************************)
\* settlement_namer.generate_name(kind=kind, rng=self.rng): the collaborator
\* draws the name from the stream it is handed
GenerateName(kind, s) ==
    LET d == RandBelow(s, 1000)
    IN [v |-> <<kind, d.v>>, s |-> d.s]

\* _make_settlement_name
MakeSettlementName(kind, s) == GenerateName(kind, s)

\* _pop_estimate
PopEstimate(stype, s) ==
    IF stype = "city" THEN RandInt(s, 8000, 25000)
    ELSE IF stype = "town" THEN RandInt(s, 1500, 6000)
    ELSE IF stype = "fort" THEN RandInt(s, 400, 1800)
    ELSE RandInt(s, 200, 800)

\* sum(values)
\* values[lo] + ... + values[hi], by halves
RECURSIVE SumRange(_, _, _)
SumRange(values, lo, hi) ==
    IF lo > hi THEN 0
    ELSE IF lo = hi THEN values[lo]
    ELSE SumRange(values, lo, (lo + hi) \div 2) + SumRange(values, (lo + hi) \div 2 + 1, hi)

SumOver(values, k) == SumRange(values, k, Len(values))

\* _most_central_tile over a non-empty list of tile indices: the first tile
\* with the least squared distance to the mean position (distances times
\* len(tiles) squared, to stay in the integers)
MostCentralTile(ts, list) ==
    LET n == Len(list)
        X(i) == ts[i + 1].x
        Y(i) == ts[i + 1].y
        sum_x == SumOver([k \in 1..Len(list) |-> X(list[k])], 1)
        sum_y == SumOver([k \in 1..Len(list) |-> Y(list[k])], 1)
        keys == [k \in 1..n |-> (n * X(list[k]) - sum_x) * (n * X(list[k]) - sum_x)
                               + (n * Y(list[k]) - sum_y) * (n * Y(list[k]) - sum_y)]
    IN IF n = 0 THEN 0 ELSE list[ArgMin(keys, 1, 1)]

\* the tags of a secondary settlement
SettlementTags(t, stype) ==
    (IF stype = "fort" THEN <<"fortress">> ELSE <<>>)
    \o (IF t.river THEN <<"river_trade">> ELSE <<>>)
    \o (IF t.biome = "wetlands" THEN <<"marsh_edge">> ELSE <<>>)

\* a tile no secondary settlement goes on, whatever it is like (faulty variant:
\* forgets the tiles that carry a settlement)
AlreadyUsedWaterOnly(t) == t.water

\* if t["settlement_id"] or t["water"]: continue
AlreadyUsed(t) == t.settlement_id # 0 \/ t.water

\* for t in realm_tiles (shuffled), on st = [tiles, settlements, s, sid_counter]
RECURSIVE PlaceSecondary(_, _, _, _, _, _)
PlaceSecondary(st, list, k, rid, extra, placed) ==
    IF k > Len(list) \/ placed >= extra THEN st
    ELSE LET t == st.tiles[list[k] + 1]
             score == (IF t.river THEN 2 ELSE 0)
                      + (IF t.biome \in {"grassland", "temperate_forest", "wetlands"}
                         THEN 1 ELSE 0)
         IN IF AlreadyUsed(t)
            THEN PlaceSecondary(st, list, k + 1, rid, extra, placed)
            ELSE IF score = 0 THEN PlaceSecondary(st, list, k + 1, rid, extra, placed)
            ELSE LET d == Random(st.s)
                     stype == IF d.v < 700 THEN "town" ELSE "fort"
                     sid == st.sid_counter
                     name == MakeSettlementName(stype, d.s)
                     founded == RandInt(name.s, 10, Max(20, years \div 2))
                     pop == PopEstimate(stype, founded.s)
                     rec == [id |-> sid, name |-> name.v, type |-> stype,
                             tile |-> <<t.x, t.y>>, realm_id |-> rid,
                             founded_year |-> founded.v, population |-> pop.v,
                             tags |-> SettlementTags(t, stype)]
                 IN PlaceSecondary([tiles |-> [st.tiles EXCEPT ![list[k] + 1].settlement_id = sid],
                                    settlements |-> Append(st.settlements, rec),
                                    realms |-> st.realms,
                                    s |-> pop.s, sid_counter |-> sid + 1],
                                   list, k + 1, rid, extra, placed + 1)

\* fault variant of SecondaryLimit: one more settlement for every 8 tiles
SecondaryLimitPerEight(size) == Min(3, Max(1, size \div 8))

\* extra = min(3, max(1, size // 80))
SecondaryLimit(size) == Min(3, Max(1, size \div 80))

\* for rid, realm_tiles in tiles_by_realm.items()
RECURSIVE SettleRealms(_, _, _)
SettleRealms(st, groups, pos) ==
    IF pos > Len(groups) THEN st
    ELSE LET rid == groups[pos].rid
             realm_tiles == groups[pos].tiles
             IsFertile(i) == Fertile(st.tiles[i + 1])
             fertile == SelectSeq(realm_tiles, IsFertile)
             candidates == IF fertile # <<>> THEN fertile ELSE realm_tiles
             cap_tile == MostCentralTile(st.tiles, candidates)
             cap_id == st.sid_counter
             cap_name == MakeSettlementName("capital", st.s)
             pop == PopEstimate("city", cap_name.s)
             capital == [id |-> cap_id, name |-> cap_name.v, type |-> "city",
                         tile |-> <<st.tiles[cap_tile + 1].x, st.tiles[cap_tile + 1].y>>,
                         realm_id |-> rid, founded_year |-> 0, population |-> pop.v,
                         tags |-> <<"capital">>]
             extra == SecondaryLimit(Len(realm_tiles))
             sh == Shuffle(realm_tiles, pop.s)
             with_cap == [tiles |-> [st.tiles EXCEPT ![cap_tile + 1].settlement_id = cap_id],
                          settlements |-> Append(st.settlements, capital),
                          realms |-> [st.realms EXCEPT ![rid].capital_settlement_id = cap_id],
                          s |-> sh.s, sid_counter |-> cap_id + 1]
         IN IF realm_tiles = <<>> THEN SettleRealms(st, groups, pos + 1)
            ELSE LET settled == PlaceSecondary(with_cap, sh.v, 1, rid, extra, 0)
                 IN IF settled.sid_counter > cap_id
                    THEN SettleRealms(settled, groups, pos + 1)
                    ELSE st

\* _derive_settlements
DeriveSettlements(ts, rs, s) ==
    SettleRealms([tiles |-> ts, settlements |-> <<>>, realms |-> rs, s |-> s,
                  sid_counter |-> 1],
                 GroupByRealm(ts), 1)

\* faulty variant: the loop ends as soon as one coordinate is the target's
LineArrivedOnEither(x, y, x1, y1) == x = x1 \/ y = y1

\* if x == x1 and y == y1: break
LineArrived(x, y, x1, y1) == x = x1 /\ y = y1

\* the loop of _line_between
RECURSIVE LineLoop(_, _, _, _, _, _)
LineLoop(x, y, err, x1, y1, q) ==
    LET points == Append(q.points, <<x, y>>)
    IN IF LineArrived(x, y, x1, y1) THEN points
       ELSE LET e2 == 2 * err
                stepx == e2 >= q.dy
                err1 == IF stepx THEN err + q.dy ELSE err
                nx == IF stepx THEN x + q.sx ELSE x
                stepy == e2 <= q.dx
                err2 == IF stepy THEN err1 + q.dx ELSE err1
                ny == IF stepy THEN y + q.sy ELSE y
            IN LineLoop(nx, ny, err2, x1, y1, [q EXCEPT !.points = points])

\* faulty variant: rasterizes from the target back to the start
LineBetweenReversed(x0, y0, x1, y1) ==
    LET dx == Abs(x1 - x0)
        dy == -Abs(y1 - y0)
        sx == IF x1 < x0 THEN 1 ELSE -1
        sy == IF y1 < y0 THEN 1 ELSE -1
    IN LineLoop(x1, y1, dx + dy, x0, y0,
                [dx |-> dx, dy |-> dy, sx |-> sx, sy |-> sy, points |-> <<>>])

\* _line_between
LineBetween(x0, y0, x1, y1) ==
    LET dx == Abs(x1 - x0)
        dy == -Abs(y1 - y0)
        sx == IF x0 < x1 THEN 1 ELSE -1
        sy == IF y0 < y1 THEN 1 ELSE -1
    IN LineLoop(x0, y0, dx + dy, x1, y1,
                [dx |-> dx, dy |-> dy, sx |-> sx, sy |-> sy, points |-> <<>>])

\* no call of _line_between is under way
NoLine == [pc |-> "idle", x0 |-> 0, y0 |-> 0, x1 |-> 0, y1 |-> 0, dx |-> 0, dy |-> 0,
           sx |-> 0, sy |-> 0, err |-> 0, x |-> 0, y |-> 0, points |-> <<>>]

\* _line_between up to its loop: the locals of the call
LineFrame(x0, y0, x1, y1) ==
    LET dx == Abs(x1 - x0)
        dy == -Abs(y1 - y0)
    IN [pc |-> "loop", x0 |-> x0, y0 |-> y0, x1 |-> x1, y1 |-> y1, dx |-> dx, dy |-> dy,
        sx |-> IF x0 < x1 THEN 1 ELSE -1, sy |-> IF y0 < y1 THEN 1 ELSE -1,
        err |-> dx + dy, x |-> x0, y |-> y0, points |-> <<>>]

\* one iteration of `while True` of _line_between on the frame l
LineIteration(l) ==
    LET points == Append(l.points, <<l.x, l.y>>)
    IN IF LineArrived(l.x, l.y, l.x1, l.y1)
       THEN [l EXCEPT !.points = points, !.pc = "returned"]
       ELSE LET e2 == 2 * l.err
                stepx == e2 >= l.dy
                err1 == IF stepx THEN l.err + l.dy ELSE l.err
                stepy == e2 <= l.dx
            IN [l EXCEPT !.points = points,
                         !.x = IF stepx THEN l.x + l.sx ELSE l.x,
                         !.y = IF stepy THEN l.y + l.sy ELSE l.y,
                         !.err = IF stepy THEN err1 + l.dx ELSE err1]

SettlementById(setts, sid) ==
    setts[CHOOSE k \in 1..Len(setts) : setts[k].id = sid]

\* _derive_roads, the roads of one realm: for s in self.settlements.values()
RECURSIVE RealmRoads(_, _, _, _, _)
RealmRoads(setts, realm, cap, k, acc) ==
    IF k > Len(setts) THEN acc
    ELSE IF setts[k].realm_id # realm.id \/ setts[k].id = cap.id
         THEN RealmRoads(setts, realm, cap, k + 1, acc)
         ELSE RealmRoads(setts, realm, cap, k + 1,
                         Append(acc, [from |-> cap.id, to |-> setts[k].id,
                                      tiles |-> LineBetween(cap.tile[1], cap.tile[2],
                                                            setts[k].tile[1], setts[k].tile[2]),
                                      type |-> "road"]))

\* _derive_roads: for realm in self.realms.values()
RECURSIVE DeriveRoads(_, _, _, _)
DeriveRoads(rs, setts, k, acc) ==
    IF k > Len(rs) THEN acc
    ELSE LET cap_id == rs[k].capital_settlement_id
         IN IF cap_id = 0 \/ ~(\E j \in 1..Len(setts) : setts[j].id = cap_id)
            THEN DeriveRoads(rs, setts, k + 1, acc)
            ELSE DeriveRoads(rs, setts, k + 1,
                             RealmRoads(setts, rs[k], SettlementById(setts, cap_id), 1, acc))

RuinCauses == <<"CIVIL_WAR", "RAID", "PLAGUE", "ARCANE_DISASTER">>

\* for i in range(target), on st = [ruins, s, error]; randint raises
\* ValueError on an empty range
RECURSIVE PlaceRuins(_, _, _, _, _)
PlaceRuins(st, ts, list, i, target) ==
    IF i >= target \/ st.error # "none" THEN st
    ELSE LET t == ts[list[i + 1] + 1]
             name == MakeSettlementName("ruin", st.s)
             lo == Max(5, years \div 4)
         IN IF lo > years
            THEN [st EXCEPT !.s = name.s, !.error = "ValueError"]
            ELSE LET yr == RandInt(name.s, lo, years)
                     cause == RandBelow(yr.s, 4)
                 IN PlaceRuins([ruins |-> Append(st.ruins,
                                    [id |-> i + 1, name |-> name.v, tile |-> <<t.x, t.y>>,
                                     origin_settlement_id |-> 0, destroyed_year |-> yr.v,
                                     cause |-> RuinCauses[cause.v + 1]]),
                                s |-> cause.s, error |-> "none"],
                               ts, list, i + 1, target)

\* fault variant of RuinTarget: the quotient is rounded up
RuinTargetRoundedUp(c) == Min(5, (c + 29) \div 30)

\* target = min(5, len(border_tiles) // 30)
RuinTarget(c) == Min(5, c \div 30)

\* _derive_ruins
DeriveRuins(ts, s) ==
    LET Candidate(t) == ~t.water /\ IsBorderTile(ts, Idx(t.x, t.y)) /\ t.settlement_id = 0
        sh == Shuffle(IndicesWhere([k \in 1..Len(ts) |-> Candidate(ts[k])], 0, <<>>), s)
    IN PlaceRuins([ruins |-> <<>>, s |-> sh.s, error |-> "none"], ts, sh.v, 0,
                  RuinTarget(Len(sh.v)))

(***************************************************************************)
(* _build_color_map.                                                       *)
(***************************************************************************)
BiomeColors ==
    [mountain |-> "#888888", highland |-> "#aa8c5f", grassland |-> "#7fbf3f",
     temperate_forest |-> "#2e8b57", wetlands |-> "#3b6b6b", desert |-> "#d9c27f"]

Legend ==
    {"#1b3b6f", "#3465a4", "#3f8dd9", "#ffcc00", "#ffd966", "#ff9900", "#cc6666"}
    \cup Range(BiomeColors)

\* faulty variant: water is not looked at, an ocean tile is coloured by biome
TerrainColorByBiome(t) ==
    IF t.river THEN "#3f8dd9"
    ELSE IF t.biome \in DOMAIN BiomeColors THEN BiomeColors[t.biome] ELSE "#000000"

\* the colour of a tile without ruin or settlement
TerrainColor(t) ==
    IF t.water
    THEN IF 10 * t.elevation < 6 * base_sea_level THEN "#1b3b6f" ELSE "#3465a4"
    ELSE IF t.river THEN "#3f8dd9"
    ELSE IF t.biome \in DOMAIN BiomeColors THEN BiomeColors[t.biome] ELSE "#000000"

TileColor(t, setts, rns) ==
    LET pos == <<t.x, t.y>>
        here == {k \in 1..Len(setts) : setts[k].tile = pos}
    IN IF \E k \in 1..Len(rns) : rns[k].tile = pos THEN "#cc6666"
       ELSE IF here # {}
       THEN \* the dict keeps the last settlement at a position
            LET st == setts[CHOOSE k \in here : \A j \in here : j <= k]
            IN IF st.type = "city" THEN "#ffcc00"
               ELSE IF st.type = "town" THEN "#ffd966"
               ELSE IF st.type = "fort" THEN "#ff9900"
               ELSE "#ffd966"
       ELSE TerrainColor(t)

BuildColorMap(ts, setts, rns) ==
    [y \in 1..height |-> [x \in 1..width |-> TileColor(ts[Idx(x - 1, y - 1) + 1], setts, rns)]]

(***************************************************************************)
(* The run: __init__, then generate_region statement by statement.         *)
(***************************************************************************)
SeaLevels == {DefaultSeaLevel, LowSeaLevel}
YearsChoices == {10 * k : k \in 0..MaxTicks}
Modes == {"continent", "archipelago"}

\* __init__ with its arguments drawn from the given sets, and empty
\* collections; an unrecognized mode falls back to "continent"
InitFrom(Widths, Heights, YearsSet, Seeds, ModeArgs, SeaLevelSet) ==
    /\ width \in Widths
    /\ height \in Heights
    /\ years \in YearsSet
    /\ seed \in Seeds
    /\ \E m \in ModeArgs : mode = IF m \in Modes THEN m ELSE "continent"
    /\ base_sea_level \in SeaLevelSet
    /\ rng = SeedState(seed)
    /\ tiles = <<>>
    /\ realms = <<>>
    /\ settlements = <<>>
    /\ events = <<>>
    /\ roads = <<>>
    /\ ruins = <<>>
    /\ color_rows = <<>>
    /\ pc = "base_tiles"
    /\ error = "none"
    /\ current_year = 0
    /\ tiles_by_realm = <<>>
    /\ realm_pos = 0
    /\ river_log = <<>>
    /\ spawn_log = {}
    /\ expansion_log = <<>>
    /\ crisis_log = NoCrisis
    /\ trait_count = 0
    /\ selected = <<>>
    /\ attempts = 0
    /\ npc_pc = "idle"
    /\ line = NoLine

Init == InitFrom(1..MaxWidth, 1..MaxHeight, YearsChoices, 0..MaxSeed,
                 Modes \cup {"island"}, SeaLevels)

\* _generate_base_tiles, the tile loops.  y / (self.height - 1) divides by
\* zero when height is 1, for the first tile already.
GenerateBaseTiles ==
    /\ pc = "base_tiles"
    /\ UNCHANGED <<npc_vars, line_vars>>
    /\ LET cs == IF mode = "continent" THEN [v |-> <<>>, s |-> rng]
                 ELSE DrawCenters(NumMasses, <<>>, rng)
       IN IF height = 1
          THEN /\ error' = "ZeroDivisionError"
               /\ pc' = "raised"
               /\ rng' = IF mode = "continent" THEN Random(Random(cs.s).s).s
                         ELSE Random(cs.s).s
               /\ UNCHANGED tiles
          ELSE LET g == GenTiles(0, <<>>, cs.v, cs.s)
               IN /\ tiles' = g.v
                  /\ rng' = g.s
                  /\ pc' = IF mode = "continent" THEN "enforce" ELSE "rivers"
                  /\ UNCHANGED error
    /\ UNCHANGED <<spawn_log, width, height, years, seed, mode, base_sea_level, realms,
                   settlements, events, roads, ruins, color_rows, current_year,
                   tiles_by_realm, realm_pos, river_log, expansion_log, crisis_log>>

\* _generate_base_tiles, continent mode: self._enforce_continent_connectivity()
EnforceConnectivity ==
    /\ pc = "enforce"
    /\ UNCHANGED <<npc_vars, line_vars>>
    /\ tiles' = EnforceContinentConnectivity(tiles)
    /\ pc' = "rivers"
    /\ UNCHANGED <<spawn_log, width, height, years, seed, mode, base_sea_level, rng, realms,
                   settlements, events, roads, ruins, color_rows, error,
                   current_year, tiles_by_realm, realm_pos, river_log, expansion_log,
                   crisis_log>>

\* _generate_base_tiles, last statement: self._carve_rivers(count=...)
CarveRiversStep ==
    /\ pc = "rivers"
    /\ UNCHANGED <<npc_vars, line_vars>>
    /\ LET r == CarveRivers(tiles, rng, Max(4, Area \div 700))
       IN /\ tiles' = r.tiles
          /\ rng' = r.s
          /\ river_log' = r.logs
    /\ pc' = "spawn"
    /\ UNCHANGED <<spawn_log, width, height, years, seed, mode, base_sea_level, realms,
                   settlements, events, roads, ruins, color_rows, error,
                   current_year, tiles_by_realm, realm_pos, expansion_log, crisis_log>>

\* self._spawn_initial_realms()
SpawnRealms ==
    /\ pc = "spawn"
    /\ UNCHANGED <<npc_vars, line_vars>>
    /\ LET r == SpawnInitialRealms(tiles, rng)
       IN /\ tiles' = r.tiles
          /\ realms' = r.realms
          /\ rng' = r.s
          /\ spawn_log' = {i \in 1..Len(r.tiles) : r.tiles[i].realm_id # 0}
    /\ pc' = "history"
    /\ UNCHANGED <<width, height, years, seed, mode, base_sea_level, settlements,
                   events, roads, ruins, color_rows, error, current_year,
                   tiles_by_realm, realm_pos, river_log, expansion_log, crisis_log>>

\* the tick size of _simulate_history
Step == Max(10, years \div 30)

\* _simulate_history up to its loop: nothing to do without realms
SimulateHistoryBegin ==
    /\ pc = "history"
    /\ UNCHANGED <<npc_vars, line_vars>>
    /\ IF realms = <<>>
       THEN /\ pc' = "settlements"
            /\ UNCHANGED <<realms, current_year>>
       ELSE /\ realms' = [k \in 1..Len(realms) |-> [realms[k] EXCEPT !.strength = TRUE]]
            /\ current_year' = 0
            /\ pc' = "loop"
    /\ UNCHANGED <<spawn_log, width, height, years, seed, mode, base_sea_level, rng, tiles,
                   settlements, events, roads, ruins, color_rows, error,
                   tiles_by_realm, realm_pos, river_log, expansion_log, crisis_log>>

\* faulty variant: runs the loop while current_year <= self.years
TickBeginInclusive ==
    /\ pc = "loop"
    /\ UNCHANGED <<npc_vars, line_vars>>
    /\ current_year <= years
    /\ current_year' = current_year + Step
    /\ tiles_by_realm' = GroupByRealm(tiles)
    /\ realm_pos' = 1
    /\ pc' = "expand"
    /\ UNCHANGED <<spawn_log, width, height, years, seed, mode, base_sea_level, rng, tiles, realms,
                   settlements, events, roads, ruins, color_rows, error, river_log,
                   expansion_log, crisis_log>>

\* while current_year < self.years: current_year += step, and the start of
\* _realm_expansion_tick: the snapshot tiles_by_realm
TickBegin ==
    /\ pc = "loop"
    /\ UNCHANGED <<npc_vars, line_vars>>
    /\ current_year < years
    /\ current_year' = current_year + Step
    /\ tiles_by_realm' = GroupByRealm(tiles)
    /\ realm_pos' = 1
    /\ pc' = "expand"
    /\ UNCHANGED <<spawn_log, width, height, years, seed, mode, base_sea_level, rng, tiles, realms,
                   settlements, events, roads, ruins, color_rows, error, river_log,
                   expansion_log, crisis_log>>

\* _realm_expansion_tick: the loop body for the next realm of the snapshot
ExpandRealm ==
    /\ pc = "expand"
    /\ UNCHANGED <<npc_vars, line_vars>>
    /\ realm_pos <= Len(tiles_by_realm)
    /\ LET r == ExpandOneRealm(tiles, realms, events, rng, tiles_by_realm, realm_pos,
                               current_year)
       IN /\ tiles' = r.tiles
          /\ rng' = r.s
          /\ tiles_by_realm' = r.groups
          /\ realms' = r.realms
          /\ events' = r.events
          /\ expansion_log' = Append(expansion_log, r.log)
    /\ realm_pos' = realm_pos + 1
    /\ UNCHANGED <<spawn_log, width, height, years, seed, mode, base_sea_level, settlements,
                   roads, ruins, color_rows, pc, error, current_year, river_log,
                   crisis_log>>

\* the end of the tick: if self.rng.random() < 0.35: self._random_crisis(year)
CrisisRoll ==
    /\ pc = "expand"
    /\ UNCHANGED <<npc_vars, line_vars>>
    /\ realm_pos > Len(tiles_by_realm)
    /\ LET d == Random(rng)
       IN IF d.v < CrisisChance
          THEN LET c == RandomCrisis(tiles, realms, events, d.s, current_year)
               IN /\ tiles' = c.tiles
                  /\ realms' = c.realms
                  /\ events' = c.events
                  /\ rng' = c.s
                  /\ crisis_log' = c.log
          ELSE /\ rng' = d.s
               /\ crisis_log' = NoCrisis
               /\ UNCHANGED <<tiles, realms, events>>
    /\ pc' = "loop"
    /\ expansion_log' = <<>>
    /\ UNCHANGED <<spawn_log, width, height, years, seed, mode, base_sea_level, settlements,
                   roads, ruins, color_rows, error, current_year, tiles_by_realm,
                   realm_pos, river_log>>

\* the end of _simulate_history: r.pop("strength", None)
SimulateHistoryEnd ==
    /\ pc = "loop"
    /\ UNCHANGED <<npc_vars, line_vars>>
    /\ ~(current_year < years)
    /\ realms' = [k \in 1..Len(realms) |-> [realms[k] EXCEPT !.strength = FALSE]]
    /\ pc' = "settlements"
    /\ UNCHANGED <<spawn_log, width, height, years, seed, mode, base_sea_level, rng, tiles,
                   settlements, events, roads, ruins, color_rows, error, current_year,
                   tiles_by_realm, realm_pos, river_log, expansion_log, crisis_log>>

\* self._derive_settlements()
DeriveSettlementsStep ==
    /\ pc = "settlements"
    /\ UNCHANGED <<npc_vars, line_vars>>
    /\ LET r == DeriveSettlements(tiles, realms, rng)
       IN /\ tiles' = r.tiles
          /\ realms' = r.realms
          /\ settlements' = r.settlements
          /\ rng' = r.s
    /\ pc' = "roads"
    /\ UNCHANGED <<spawn_log, width, height, years, seed, mode, base_sea_level, events, roads,
                   ruins, color_rows, error, current_year, tiles_by_realm, realm_pos,
                   river_log, expansion_log, crisis_log>>

\* self._derive_roads()
DeriveRoadsStep ==
    /\ pc = "roads"
    /\ UNCHANGED <<npc_vars, line_vars>>
    /\ roads' = DeriveRoads(realms, settlements, 1, <<>>)
    /\ pc' = "ruins"
    /\ UNCHANGED <<spawn_log, width, height, years, seed, mode, base_sea_level, rng, tiles, realms,
                   settlements, events, ruins, color_rows, error, current_year,
                   tiles_by_realm, realm_pos, river_log, expansion_log, crisis_log>>

\* self._derive_ruins()
DeriveRuinsStep ==
    /\ pc = "ruins"
    /\ UNCHANGED <<npc_vars, line_vars>>
    /\ LET r == DeriveRuins(tiles, rng)
       IN /\ ruins' = r.ruins
          /\ rng' = r.s
          /\ error' = r.error
          /\ pc' = IF r.error = "none" THEN "color_map" ELSE "raised"
    /\ UNCHANGED <<spawn_log, width, height, years, seed, mode, base_sea_level, tiles, realms,
                   settlements, events, roads, color_rows, current_year,
                   tiles_by_realm, realm_pos, river_log, expansion_log, crisis_log>>

\* color_rows, color_legend = self._build_color_map(), and the return
BuildColorMapStep ==
    /\ pc = "color_map"
    /\ UNCHANGED <<npc_vars, line_vars>>
    /\ color_rows' = BuildColorMap(tiles, settlements, ruins)
    /\ pc' = "done"
    /\ UNCHANGED <<spawn_log, width, height, years, seed, mode, base_sea_level, rng, tiles, realms,
                   settlements, events, roads, ruins, error, current_year,
                   tiles_by_realm, realm_pos, river_log, expansion_log, crisis_log>>

Next ==
    \/ GenerateBaseTiles
    \/ EnforceConnectivity
    \/ CarveRiversStep
    \/ SpawnRealms
    \/ SimulateHistoryBegin
    \/ TickBegin
    \/ ExpandRealm
    \/ CrisisRoll
    \/ SimulateHistoryEnd
    \/ DeriveSettlementsStep
    \/ DeriveRoadsStep
    \/ DeriveRuinsStep
    \/ BuildColorMapStep

Spec == Init /\ [][Next]_vars

\* the runs on a one-tile-wide strip of land StripHeight tiles long
InitStrip == InitFrom({1}, {StripHeight}, YearsChoices, 0..MaxSeed, Modes, SeaLevels)

SpecStrip == InitStrip /\ [][Next]_vars

\* the runs of Spec with years 0 or 10 * MaxTicks, and also with a sea level
\* so high that all land is mountain
InitHighSea ==
    InitFrom(1..MaxWidth, 1..MaxHeight, {0, 10 * MaxTicks}, 0..MaxSeed, Modes,
             SeaLevels \cup {HighSeaLevel})

SpecHighSea == InitHighSea /\ [][Next]_vars

\* the runs of Spec on the widest grid whose `years` is not a multiple of the
\* tick size
OffTickYears == {10 * k + 5 : k \in 0..MaxTicks}

InitOffTick ==
    InitFrom({MaxWidth}, 1..MaxHeight, OffTickYears, 0..MaxSeed, Modes, SeaLevels)

SpecOffTick == InitOffTick /\ [][Next]_vars

\* histories on a grid wide enough for 30 and more candidate tiles for a
\* ruin, and runs of fewer than five years on the same grid
InitRuins ==
    InitFrom({RuinWidth}, {RuinHeight}, {0, 3, 10 * HistoryTicks}, 0..MaxRuinSeed, Modes,
             {LowSeaLevel})

SpecRuins == InitRuins /\ [][Next]_vars

\* long histories at the low sea level: a strip one tile wide, a grid three
\* tiles wide, and a grid of two tiles, which one realm can fill
InitHistory ==
    \/ InitFrom({1}, {2}, {10 * HistoryTicks}, 0..MaxHistorySeed, Modes, {LowSeaLevel})
    \/ InitFrom({1}, {HistoryStrip}, {10 * HistoryTicks}, 0..MaxHistorySeed, Modes,
                {LowSeaLevel})
    \/ InitFrom({3}, {HistoryHeight}, {10 * HistoryTicks}, 0..MaxHistorySeed, Modes,
                {LowSeaLevel})

SpecHistory == InitHistory /\ [][Next]_vars

(***************************************************************************)
(* NPCGenerator._pick_traits (src/npcgen.py).                              *)
(***************************************************************************)
\* TRAIT_CONFLICTS, as <<trait, its list>> pairs
TRAIT_CONFLICTS ==
    << <<"cowardly", {"recklessly brave", "fearless"}>>,
       <<"recklessly brave", {"cowardly"}>>,
       <<"fearless", {"cowardly"}>>,
       <<"generous", {"greedy", "frugal"}>>,
       <<"greedy", {"generous"}>>,
       <<"frugal", {"generous", "extravagant"}>>,
       <<"extravagant", {"frugal"}>>,
       <<"honest to a fault", {"pathological liar", "two-faced"}>>,
       <<"pathological liar", {"honest to a fault"}>>,
       <<"two-faced", {"honest to a fault"}>>,
       <<"naive", {"suspicious", "paranoid", "calculating"}>>,
       <<"suspicious", {"naive"}>>,
       <<"paranoid", {"naive"}>>,
       <<"calculating", {"naive", "impulsive"}>>,
       <<"impulsive", {"calculating", "meticulous"}>>,
       <<"meticulous", {"impulsive", "chaotically messy"}>>,
       <<"humble", {"arrogant", "pompous", "vain", "boastful"}>>,
       <<"arrogant", {"humble"}>>,
       <<"pompous", {"humble"}>>,
       <<"vain", {"humble"}>>,
       <<"boastful", {"humble"}>>,
       <<"lazy", {"industrious"}>>,
       <<"industrious", {"lazy"}>>,
       <<"forgiving", {"vengeful"}>>,
       <<"vengeful", {"forgiving"}>>,
       <<"open-minded", {"xenophobic", "judgmental"}>>,
       <<"xenophobic", {"open-minded", "welcoming of strangers"}>>,
       <<"welcoming of strangers", {"xenophobic"}>>,
       <<"judgmental", {"open-minded"}>> >>

\* self.TRAIT_CONFLICTS.get(trait, [])
ConflictsOf(trait) ==
    LET hit == {k \in 1..Len(TRAIT_CONFLICTS) : TRAIT_CONFLICTS[k][1] = trait}
    IN IF hit = {} THEN {} ELSE TRAIT_CONFLICTS[CHOOSE k \in hit : TRUE][2]

\* self.traits: the traits that TRAIT_CONFLICTS names (npc_traits.json holds
\* the pool; it is data, not code)
TraitPool ==
    {TRAIT_CONFLICTS[k][1] : k \in 1..Len(TRAIT_CONFLICTS)}
        \cup UNION {TRAIT_CONFLICTS[k][2] : k \in 1..Len(TRAIT_CONFLICTS)}

MaxAttempts == 50

\* _has_conflict
HasConflict(trait, existing) ==
    \/ trait \in Range(existing)
    \/ \E k \in 1..Len(existing) : existing[k] \in ConflictsOf(trait)

\* _pick_traits is called: count = random.randint(2, 3) when not given
PickTraitsBegin ==
    /\ npc_pc = "idle"
    /\ trait_count' \in 2..3
    /\ selected' = <<>>
    /\ attempts' = 0
    /\ npc_pc' = "picking"
    /\ UNCHANGED <<region_vars, line_vars>>

\* one iteration of `while len(selected) < count and attempts < max_attempts`
DrawTrait ==
    /\ npc_pc = "picking"
    /\ Len(selected) < trait_count /\ attempts < MaxAttempts
    /\ \E trait \in TraitPool :
          IF HasConflict(trait, selected)
          THEN attempts' = attempts + 1 /\ selected' = selected
          ELSE selected' = Append(selected, trait) /\ attempts' = 0
    /\ UNCHANGED <<trait_count, npc_pc>>
    /\ UNCHANGED <<region_vars, line_vars>>

\* return selected
PickTraitsReturn ==
    /\ npc_pc = "picking"
    /\ ~(Len(selected) < trait_count /\ attempts < MaxAttempts)
    /\ npc_pc' = "returned"
    /\ UNCHANGED <<trait_count, selected, attempts>>
    /\ UNCHANGED <<region_vars, line_vars>>

NextTraits ==
    \/ PickTraitsBegin
    \/ DrawTrait
    \/ PickTraitsReturn

\* one call of _pick_traits, with no region being generated
InitTraits ==
    InitFrom({MaxWidth}, {MaxHeight}, {0}, {0}, {"continent"}, {DefaultSeaLevel})

SpecTraits == InitTraits /\ [][NextTraits]_vars

------------------------------------------------------------------------------
\* _line_between, called on its own

\* _line_between is called with integer endpoints
LineBetweenBegin ==
    /\ line.pc = "idle"
    /\ \E x0 \in 0..MaxLineCoord, y0 \in 0..MaxLineCoord,
          x1 \in 0..MaxLineCoord, y1 \in 0..MaxLineCoord :
          line' = LineFrame(x0, y0, x1, y1)
    /\ UNCHANGED <<region_vars, npc_vars>>

\* one iteration of `while True`; the loop has no bound of its own, the
\* model stops a call that holds MaxLinePoints points
LineBetweenStep ==
    /\ line.pc = "loop"
    /\ Len(line.points) < MaxLinePoints
    /\ line' = LineIteration(line)
    /\ UNCHANGED <<region_vars, npc_vars>>

NextLine ==
    \/ LineBetweenBegin
    \/ LineBetweenStep

\* one call of _line_between, with no region being generated; the loop is
\* the only thing the call does, so it keeps iterating until it breaks
InitLine ==
    InitFrom({MaxWidth}, {MaxHeight}, {0}, {0}, {"continent"}, {DefaultSeaLevel})

SpecLine == InitLine /\ [][NextLine]_vars /\ WF_vars(LineBetweenStep)

-----------------------------------------------------------------------------
\* Properties of generate_region

AfterEnforce == pc \notin {"base_tiles", "enforce"}
AfterSpawn == pc \notin {"base_tiles", "enforce", "rivers", "spawn", "raised"}
AfterSettlements == pc \in {"roads", "ruins", "color_map", "done"}
AfterRoads == pc \in {"ruins", "color_map", "done"}

Land == {i \in 1..Len(tiles) : ~tiles[i].water}

Adjacent(a, b) == Abs(a.x - b.x) + Abs(a.y - b.y) = 1

\* the land tiles that a path of adjacent land tiles joins to a tile of S
RECURSIVE Reach(_)
Reach(S) ==
    LET grown == S \cup {j \in Land : \E i \in S : Adjacent(tiles[i], tiles[j])}
    IN IF grown = S THEN S ELSE Reach(grown)

LandConnected == Land = {} \/ Reach({CHOOSE i \in Land : TRUE}) = Land

\* C1: in continent mode, once the connectivity pass has run and up to the
\* returned document, the tiles with water = False are empty or one
\* 4-neighbour connected component
C1_OneLandmass == (mode = "continent" /\ AfterEnforce) => LandConnected

\* a continent run that has sunk an island (a water tile at or above sea
\* level) and has returned its document with land and a realm on it
C1_IslandSunk ==
    /\ pc = "done"
    /\ mode = "continent"
    /\ Land # {}
    /\ realms # <<>>
    /\ \E i \in 1..Len(tiles) : tiles[i].water /\ tiles[i].elevation >= base_sea_level

\* C3: generate_region raises in no stage, for every positive width and
\* height, 1 included
C3_NoStageRaises == error = "none"

\* C4 as stated: every river walk ends with the chosen next tile being water
\* or strictly higher than the current tile, never by the 80-step budget alone
C4_EndsAtWaterOrMinimum ==
    \A k \in 1..Len(river_log) :
        /\ river_log[k].steps <= RiverMaxLength
        /\ river_log[k].end = "break"
        /\ \/ river_log[k].last.next_water
           \/ river_log[k].last.next_elevation > river_log[k].last.cur_elevation

\* C4, amended: every river walk ends within 80 steps, and a walk that ends
\* before its 80th step ends with the chosen next tile being water or
\* strictly higher than the current tile
C4_EndsWithinBudget ==
    \A k \in 1..Len(river_log) :
        /\ river_log[k].steps <= RiverMaxLength
        /\ river_log[k].steps < RiverMaxLength =>
              /\ river_log[k].end = "break"
              /\ \/ river_log[k].last.next_water
                 \/ river_log[k].last.next_elevation > river_log[k].last.cur_elevation

\* a run with a walk that stopped at a local minimum after several steps and
\* a walk that stopped on reaching water
C4_BothEndings ==
    /\ \E k \in 1..Len(river_log) :
          /\ river_log[k].steps \in 2..(RiverMaxLength - 1)
          /\ ~river_log[k].last.next_water
          /\ river_log[k].last.next_elevation > river_log[k].last.cur_elevation
    /\ \E k \in 1..Len(river_log) :
          river_log[k].steps < RiverMaxLength /\ river_log[k].last.next_water

PeakAppended ==
    /\ Len(events') = Len(events) + 1
    /\ events'[Len(events')].type = "EMPIRE_PEAK"

\* C5: an EMPIRE_PEAK event is appended for a realm only when the number of
\* tiles the realm owns at that moment is more than 18% of width*height
C5_PeakOnlyAboveShare ==
    [][PeakAppended =>
          ExceedsPeakShare(RealmTileCount(tiles', events'[Len(events')].realm_ids[1]))]_vars

PeakEvents == {k \in 1..Len(events) : events[k].type = "EMPIRE_PEAK"}

RealmIds == {realms[k].id : k \in 1..Len(realms)}

\* C7: the realm_id of every tile is None or the id of a realm present in the
\* realm table, and no realm ever leaves the table
C7_RealmIdsResolve ==
    /\ [](\A i \in 1..Len(tiles) : tiles[i].realm_id # 0 => tiles[i].realm_id \in RealmIds)
    /\ [][/\ Len(realms') >= Len(realms)
          /\ \A k \in 1..Len(realms) : realms'[k].id = realms[k].id]_vars

\* a returned run where a realm that a crisis has left without a tile is
\* still in the table
C7_EmptyRealmKept ==
    /\ pc = "done"
    /\ \E k \in 1..Len(realms) : RealmTileCount(tiles, realms[k].id) = 0

\* C8: after settlement derivation every settlement's tile carries that
\* settlement's id, every tile's settlement_id is None or the id of a
\* settlement placed on that tile, and no two settlements share a tile
C8_SettlementsMatchTiles ==
    AfterSettlements =>
        /\ \A k \in 1..Len(settlements) :
              tiles[Idx(settlements[k].tile[1], settlements[k].tile[2]) + 1].settlement_id
                  = settlements[k].id
        /\ \A i \in 1..Len(tiles) :
              tiles[i].settlement_id # 0 =>
                  \E k \in 1..Len(settlements) :
                      /\ settlements[k].id = tiles[i].settlement_id
                      /\ settlements[k].tile = <<tiles[i].x, tiles[i].y>>
        /\ \A j, k \in 1..Len(settlements) :
              settlements[j].tile = settlements[k].tile => j = k

\* a returned run where a realm has its capital and a secondary settlement
C8_SecondaryPlaced ==
    /\ pc = "done"
    /\ \E j, k \in 1..Len(settlements) :
          /\ j # k
          /\ settlements[j].realm_id = settlements[k].realm_id
          /\ settlements[j].tags = <<"capital">>

\* C9: with years = 0 the history loop runs no tick, the event list stays
\* empty, and after spawning every realm owns exactly one tile, whose owner
\* no later stage changes
C9_NoHistoryWhenYearsZero ==
    /\ [](years = 0 =>
             /\ pc # "expand"
             /\ current_year = 0
             /\ events = <<>>
             /\ AfterSpawn => \A k \in 1..Len(realms) :
                                 RealmTileCount(tiles, realms[k].id) = 1)
    /\ [][(years = 0 /\ AfterSpawn) =>
             \A i \in 1..Len(tiles) : tiles'[i].realm_id = tiles[i].realm_id]_vars

\* a returned run with years = 0 and two realms
C9_TwoRealmsNoYears ==
    /\ pc = "done"
    /\ years = 0
    /\ Len(realms) >= 2
    /\ settlements # <<>>

\* C10: every road starts on the tile of the capital it leaves from and ends
\* on the tile of the settlement it goes to
C10_RoadEndpoints ==
    AfterRoads =>
        \A r \in 1..Len(roads) :
            LET cap == SettlementById(settlements, roads[r].from)
                dest == SettlementById(settlements, roads[r].to)
            IN /\ roads[r].tiles # <<>>
               /\ realms[cap.realm_id].capital_settlement_id = cap.id
               /\ roads[r].tiles[1] = cap.tile
               /\ roads[r].tiles[Len(roads[r].tiles)] = dest.tile

\* a returned run with a road of three tiles or more
C10_LongRoad ==
    /\ pc = "done"
    /\ \E r \in 1..Len(roads) : Len(roads[r].tiles) >= 3

NoFertileLand ==
    \A i \in 1..Len(tiles) :
        tiles[i].water \/ tiles[i].biome \notin {"grassland", "temperate_forest", "wetlands"}

\* C11: once the terrain is generated, if it has no fertile land tile then no
\* stage raises, no realm is created, and settlements, roads, ruins and
\* events stay empty up to the returned document
C11_BarrenGridStaysEmpty ==
    (pc \notin {"base_tiles", "enforce", "rivers"} /\ tiles # <<>> /\ NoFertileLand) =>
        /\ error = "none"
        /\ pc # "raised"
        /\ realms = <<>>
        /\ settlements = <<>>
        /\ roads = <<>>
        /\ ruins = <<>>
        /\ events = <<>>

\* a returned run with years > 0 on a terrain that has land, none of it fertile
C11_BarrenLandReturned ==
    /\ pc = "done"
    /\ years > 0
    /\ NoFertileLand
    /\ \E i \in 1..Len(tiles) : ~tiles[i].water

\* C12: in every state, in both modes, a tile has water = True if and only if
\* its biome is ocean
C12_WaterIffOcean ==
    \A i \in 1..Len(tiles) : tiles[i].water <=> (tiles[i].biome = "ocean")

\* a continent terrain, right after the connectivity pass, that has land, a
\* tile that was water from the start and a tile the pass has turned to ocean
C12_SunkAndBornOcean ==
    /\ pc = "rivers"
    /\ mode = "continent"
    /\ \E i \in 1..Len(tiles) : tiles[i].biome # "ocean"
    /\ \E i \in 1..Len(tiles) : tiles[i].water /\ tiles[i].elevation < base_sea_level
    /\ \E i \in 1..Len(tiles) : tiles[i].water /\ tiles[i].elevation >= base_sea_level

\* the tiles of `within` that a path of adjacent tiles of `within` joins to S
RECURSIVE Component(_, _)
Component(S, within) ==
    LET grown == S \cup {j \in within : \E i \in S : Adjacent(tiles[i], tiles[j])}
    IN IF grown = S THEN S ELSE Component(grown, within)

FirstOf(S) == CHOOSE i \in S : \A j \in S : i <= j

\* C13: the connectivity pass keeps one land component of the largest size,
\* among those of that size the one whose first tile comes first in row-major
\* order, and turns every other land tile to ocean
C13_KeepsFirstLargest ==
    [][(pc = "enforce" /\ pc' = "rivers") =>
          LET comps == {Component({i}, Land) : i \in Land}
              kept == {i \in 1..Len(tiles') : ~tiles'[i].water}
          IN /\ comps = {} => kept = {}
             /\ comps # {} =>
                   /\ kept \in comps
                   /\ \A c \in comps :
                         /\ Cardinality(c) <= Cardinality(kept)
                         /\ Cardinality(c) = Cardinality(kept) => FirstOf(kept) <= FirstOf(c)
             /\ \A i \in Land \ kept : tiles'[i].water /\ tiles'[i].biome = "ocean"]_vars

\* the tiles that were land before the connectivity pass
FormerLand == {i \in 1..Len(tiles) : tiles[i].elevation >= base_sea_level}

\* a continent terrain, right after the pass, where a component as large as
\* the kept one was turned to ocean
C13_TiedComponentSunk ==
    /\ pc = "rivers"
    /\ mode = "continent"
    /\ Land # {}
    /\ \E i \in FormerLand \ Land :
          Cardinality(Component({i}, FormerLand)) = Cardinality(Land)

\* two traits conflict when either is in the other's TRAIT_CONFLICTS entry
Conflicting(a, b) == b \in ConflictsOf(a) \/ a \in ConflictsOf(b)

\* C14: the list _pick_traits returns has no trait twice and no two traits
\* that conflict
C14_NoConflictReturned ==
    npc_pc = "returned" =>
        \A j, k \in 1..Len(selected) :
            j # k => selected[j] # selected[k] /\ ~Conflicting(selected[j], selected[k])

\* C15: in one expansion pass a realm annexes at most max(1, size // 12)
\* tiles, size being its tile count at the start of the tick
C15_GrowthAtMostDesired ==
    \A k \in 1..Len(expansion_log) :
        expansion_log[k].grown <= Max(1, expansion_log[k].size \div 12)

\* C16: in one expansion pass the owned tiles visited are at most
\* desired_growth * 6
C16_VisitsAtMostSixfold ==
    \A k \in 1..Len(expansion_log) :
        expansion_log[k].visited <= 6 * Max(1, expansion_log[k].size \div 12)

\* C17: a realm annexes a tile only while it owns a 4-neighbour of that tile
C17_AnnexesNextToOwnTile ==
    \A k \in 1..Len(expansion_log) : expansion_log[k].detached = 0

\* the step of the tick that rolls for a crisis
CrisisStep == pc = "expand" /\ pc' = "loop"

\* the tiles whose owner the step changes
ChangedOwner == {i \in 1..Len(tiles) : tiles'[i].realm_id # tiles[i].realm_id}

OwnedBy(rid) == {i \in 1..Len(tiles) : tiles[i].realm_id = rid}

\* the tiles of realm rid with a 4-neighbour that rid does not own
BorderOf(rid) ==
    {i \in OwnedBy(rid) :
        \E j \in 1..Len(tiles) :
            Adjacent(tiles[i], tiles[j]) /\ tiles[j].realm_id # rid}

\* the tiles of realm rid with a 4-neighbour owned by a different realm
ForeignBorderOf(rid) ==
    {i \in OwnedBy(rid) :
        \E j \in 1..Len(tiles) :
            Adjacent(tiles[i], tiles[j]) /\ tiles[j].realm_id \notin {0, rid}}

\* C18 as stated: a PLAGUE or SUCCESSION crisis on a realm of n tiles that has
\* a tile beside another realm's tile strips exactly max(1, n // k) tiles;
\* every tile that loses its owner was a tile of the chosen realm beside a tile
\* of a different realm, and no other tile changes owner
C18_StripsForeignBorder ==
    [][CrisisStep /\ crisis_log'.type \in {"PLAGUE", "SUCCESSION"} =>
          LET rid == crisis_log'.rid
              n == Cardinality(OwnedBy(rid))
          IN /\ ForeignBorderOf(rid) # {} =>
                    Cardinality(ChangedOwner) = Max(1, n \div crisis_log'.k)
             /\ ChangedOwner \subseteq ForeignBorderOf(rid)
             /\ \A i \in ChangedOwner : tiles'[i].realm_id = 0]_vars

\* C18 (amended): a PLAGUE or SUCCESSION crisis on a realm of n tiles, b of
\* them border tiles (tiles with a 4-neighbour the realm does not own, unowned
\* neighbours included), strips exactly min(max(1, n // k), b) tiles with k in
\* 6..10; every tile that loses its owner was a border tile of the chosen
\* realm, and no other tile changes owner
C18_StripsOwnBorder ==
    [][CrisisStep /\ crisis_log'.type \in {"PLAGUE", "SUCCESSION"} =>
          LET rid == crisis_log'.rid
              n == Cardinality(OwnedBy(rid))
              b == Cardinality(BorderOf(rid))
          IN /\ b > 0 =>
                    /\ crisis_log'.k \in 6..10
                    /\ Cardinality(ChangedOwner) = Min(Max(1, n \div crisis_log'.k), b)
             /\ ChangedOwner \subseteq BorderOf(rid)
             /\ \A i \in ChangedOwner : tiles'[i].realm_id = 0]_vars

\* a crisis stripped every border tile of a realm that had fewer of them than
\* max(1, n // k)
C18_StripCutShort ==
    /\ crisis_log.type \in {"PLAGUE", "SUCCESSION"}
    /\ crisis_log.effect = "strip"
    /\ crisis_log.border < Max(1, crisis_log.n \div crisis_log.k)

CrisisEvent(e) == e.type \in {"PLAGUE", "CIVIL_WAR", "SUCCESSION"}

\* C20: a crisis that strips tiles or creates a realm appends exactly one
\* event, of its type, for the realm that owned the tiles, dated the year of
\* the tick; a crisis roll that changes no ownership and no realm appends
\* nothing; no two crisis events carry the year of the same tick
C20_OneEventPerCrisis ==
    /\ [][CrisisStep =>
            IF ChangedOwner # {} \/ realms' # realms
            THEN /\ Len(events') = Len(events) + 1
                 /\ SubSeq(events', 1, Len(events)) = events
                 /\ LET e == events'[Len(events')]
                    IN /\ CrisisEvent(e)
                       /\ e.type = crisis_log'.type
                       /\ (e.type = "CIVIL_WAR") <=> (realms' # realms)
                       /\ e.year = current_year
                       /\ Len(e.realm_ids) = 1
                       /\ ChangedOwner \subseteq OwnedBy(e.realm_ids[1])
            ELSE events' = events]_vars
    /\ [](\A j, k \in 1..Len(events) :
              j < k /\ CrisisEvent(events[j]) /\ CrisisEvent(events[k])
                  => events[j].year # events[k].year)

\* a crisis has just been skipped in a history that already records a crisis
\* that stripped tiles and a civil war
C20_SkippedAfterEvents ==
    /\ crisis_log.type # "none"
    /\ crisis_log.effect = "none"
    /\ \E k \in 1..Len(events) : events[k].type \in {"PLAGUE", "SUCCESSION"}
    /\ \E k \in 1..Len(events) : events[k].type = "CIVIL_WAR"

\* C21: every tick year is greater than 0 and at most `years`, and so are the
\* year of every event and the founded_year of every realm created by a
\* civil war
C21_TickYearsWithinYears ==
    /\ pc = "expand" => (0 < current_year /\ current_year <= years)
    /\ \A k \in 1..Len(events) : 0 < events[k].year /\ events[k].year <= years
    /\ \A k \in 1..Len(realms) :
          realms[k].founded_year # 0 =>
              (0 < realms[k].founded_year /\ realms[k].founded_year <= years)

FertileLand ==
    {i \in 1..Len(tiles) :
        ~tiles[i].water /\ tiles[i].biome \in {"grassland", "temperate_forest", "wetlands"}}

Seeds == {i \in 1..Len(tiles) : tiles[i].realm_id # 0}

C23_OwnedTilesHabitable ==
    AfterSpawn =>
        \A i \in 1..Len(tiles) :
            tiles[i].realm_id # 0 => (~tiles[i].water /\ tiles[i].biome # "mountain")

\* a returned history with a civil war in which a realm's tile lies beside an
\* unowned mountain tile and another beside a water tile
C23_RealmBesideMountain ==
    /\ pc = "done"
    /\ \E k \in 1..Len(events) : events[k].type = "CIVIL_WAR"
    /\ \E i, j \in 1..Len(tiles) :
          /\ tiles[i].realm_id # 0
          /\ Adjacent(tiles[i], tiles[j])
          /\ ~tiles[j].water /\ tiles[j].biome = "mountain"
    /\ \E i, j \in 1..Len(tiles) :
          /\ tiles[i].realm_id # 0
          /\ Adjacent(tiles[i], tiles[j])
          /\ tiles[j].water

\* the non-water, unsettled tiles of a realm with a 4-neighbour the realm
\* does not own
RuinCandidates ==
    {i \in 1..Len(tiles) :
        /\ ~tiles[i].water
        /\ tiles[i].settlement_id = 0
        /\ tiles[i].realm_id # 0
        /\ \E j \in 1..Len(tiles) :
              Adjacent(tiles[i], tiles[j]) /\ tiles[j].realm_id # tiles[i].realm_id}

CapitalsOf(rid) ==
    {j \in 1..Len(settlements) :
        settlements[j].realm_id = rid /\ "capital" \in Range(settlements[j].tags)}

SecondariesOf(rid) ==
    {j \in 1..Len(settlements) :
        settlements[j].realm_id = rid /\ "capital" \notin Range(settlements[j].tags)}

\* the tiles at the position of settlement j
TilesAt(j) ==
    {i \in 1..Len(tiles) : <<tiles[i].x, tiles[i].y>> = settlements[j].tile}

\* C25: after settlement derivation a realm that owns tiles has exactly one
\* capital, a city on a tile of the realm, named by capital_settlement_id; a
\* realm without tiles has no capital and no settlement; a realm of n tiles
\* has at most min(3, max(1, n // 80)) other settlements, each on a non-water
\* tile of the realm
C25_OneCapitalPerRealm ==
    AfterSettlements =>
        \A k \in 1..Len(realms) :
            LET rid == realms[k].id
                n == Cardinality({i \in 1..Len(tiles) : tiles[i].realm_id = rid})
            IN /\ n >= 1 =>
                     /\ Cardinality(CapitalsOf(rid)) = 1
                     /\ \A j \in CapitalsOf(rid) :
                           /\ settlements[j].type = "city"
                           /\ settlements[j].id = realms[k].capital_settlement_id
                           /\ TilesAt(j) # {}
                           /\ \A i \in TilesAt(j) : tiles[i].realm_id = rid
               /\ n = 0 =>
                     /\ realms[k].capital_settlement_id = 0
                     /\ CapitalsOf(rid) = {}
                     /\ SecondariesOf(rid) = {}
               /\ Cardinality(SecondariesOf(rid)) <= Min(3, Max(1, n \div 80))
               /\ \A j \in SecondariesOf(rid) :
                     /\ TilesAt(j) # {}
                     /\ \A i \in TilesAt(j) : ~tiles[i].water /\ tiles[i].realm_id = rid

\* a returned history with a realm that lost all its tiles, and a realm of
\* 16 tiles or more with a capital and one other settlement
C25_EmptyRealmAndTown ==
    /\ pc = "done"
    /\ \E k \in 1..Len(realms) : \A i \in 1..Len(tiles) : tiles[i].realm_id # realms[k].id
    /\ \E k \in 1..Len(realms) :
          /\ Cardinality({i \in 1..Len(tiles) : tiles[i].realm_id = realms[k].id}) >= 16
          /\ Cardinality(CapitalsOf(realms[k].id)) = 1
          /\ Cardinality(SecondariesOf(realms[k].id)) = 1

\* what holds of terrain in every state: no water tile carries a river, and
\* in continent mode nothing is carved or spawned until connectivity
\* enforcement is over
RiversOnLandAfterEnforce ==
    /\ \A i \in 1..Len(tiles) : tiles[i].river => ~tiles[i].water
    /\ ~AfterEnforce =>
          /\ river_log = <<>>
          /\ realms = <<>>
          /\ \A i \in 1..Len(tiles) : ~tiles[i].river /\ tiles[i].realm_id = 0

\* what holds of terrain in every step: a river flag is never reset, and only
\* connectivity enforcement turns a tile into water or back
TerrainKept ==
    /\ \A i \in 1..Len(tiles) : tiles[i].river => tiles'[i].river
    /\ (\E i \in 1..Len(tiles) : tiles'[i].water # tiles[i].water) =>
          mode = "continent" /\ pc = "enforce"

\* the seeds that own a realm before the step and none after
ClearedSeeds == {i \in spawn_log : tiles[i].realm_id # 0 /\ tiles'[i].realm_id = 0}

\* C26 as stated: connectivity enforcement is over before rivers are carved
\* and realms are spawned, a river flag once true is never reset, no water
\* tile carries a river, and no stage after spawning clears the realm of a
\* seed tile
C26_SeedsNeverCleared ==
    /\ []RiversOnLandAfterEnforce
    /\ [][TerrainKept /\ (mode = "continent" => ClearedSeeds = {})]_vars

\* C26, amended: connectivity enforcement is over before rivers are carved
\* and realms are spawned, a river flag once true is never reset, no water
\* tile carries a river, no tile turns to water after enforcement, and the
\* realm of a seed tile is cleared only when a PLAGUE or SUCCESSION crisis of
\* the history stage strips the tile from its realm
C26_SeedsClearedByCrisisOnly ==
    /\ []RiversOnLandAfterEnforce
    /\ [][/\ TerrainKept
          /\ ClearedSeeds # {} =>
                /\ CrisisStep
                /\ crisis_log'.type \in {"PLAGUE", "SUCCESSION"}
                /\ \A i \in ClearedSeeds : tiles[i].realm_id = crisis_log'.rid]_vars

\* a returned continent run where enforcement turned land into ocean, a
\* river was carved, and a seed tile lost its realm
C26_SunkRiverAndClearedSeed ==
    /\ pc = "done"
    /\ mode = "continent"
    /\ \E i \in FormerLand : tiles[i].water
    /\ \E i \in 1..Len(tiles) : tiles[i].river
    /\ \E i \in spawn_log : tiles[i].realm_id = 0

------------------------------------------------------------------------------
\* Properties of _line_between

\* what holds of the points of a call, under way or returned: there are at
\* most max(|x1-x0|, |y1-y0|) + 1 of them, consecutive points differ by at
\* most 1 in each coordinate, and no point repeats; a returned call has
\* exactly that many, from the first endpoint to the second, and they are
\* the points the road builder gets
LinePointsInShape ==
    line.pc # "idle" =>
        LET pts == line.points
            n == Max(Abs(line.x1 - line.x0), Abs(line.y1 - line.y0)) + 1
        IN /\ Len(pts) <= n
           /\ \A k \in 1..(Len(pts) - 1) :
                 /\ Abs(pts[k + 1][1] - pts[k][1]) <= 1
                 /\ Abs(pts[k + 1][2] - pts[k][2]) <= 1
           /\ \A j, k \in 1..Len(pts) : j # k => pts[j] # pts[k]
           /\ line.pc = "returned" =>
                 /\ Len(pts) = n
                 /\ pts[1] = <<line.x0, line.y0>>
                 /\ pts[n] = <<line.x1, line.y1>>
                 /\ pts = LineBetween(line.x0, line.y0, line.x1, line.y1)

\* C27: every call of _line_between returns, whatever its endpoints
\* (identical, horizontal, vertical, diagonal or oblique), with exactly
\* max(|x1-x0|, |y1-y0|) + 1 points, consecutive points differing by at most
\* 1 in each coordinate and no point twice
C27_LineBetweenReturns ==
    /\ []LinePointsInShape
    /\ (line.pc = "loop") ~> (line.pc = "returned")

\* a returned call for an oblique line that goes left and down
C27_ObliqueLineReturned ==
    /\ line.pc = "returned"
    /\ line.x1 < line.x0
    /\ line.y1 > line.y0
    /\ line.dx > -line.dy
    /\ Len(line.points) = line.dx + 1

------------------------------------------------------------------------------
\* Properties of _build_color_map

\* the colours of the returned map
UsedColors == {color_rows[y][x] : y \in 1..Len(color_rows), x \in 1..width}

\* C28: the colour map of a returned run has exactly height rows of exactly
\* width colours, every colour in it has an entry in the legend, and the
\* fallback colour of an unknown biome is not among them
C28_ColorMapShapeAndLegend ==
    pc = "done" =>
        /\ Len(color_rows) = height
        /\ \A y \in 1..Len(color_rows) : Len(color_rows[y]) = width
        /\ UsedColors \subseteq Legend
        /\ "#000000" \notin UsedColors

\* a returned continent run on a grid that is not square, whose map shows a
\* city, a town, a river, both depths of ocean, and a tile that connectivity
\* enforcement turned to ocean
C28_MapWithTownRiverOcean ==
    /\ pc = "done"
    /\ mode = "continent"
    /\ width # height
    /\ {"#ffcc00", "#ffd966", "#3f8dd9", "#1b3b6f", "#3465a4"} \subseteq UsedColors
    /\ \E i \in FormerLand : tiles[i].water

====
